---------------------------- MODULE Spec2Model ----------------------------
(***************************************************************************)
(* A model of raytracer.go: the frame driver of main, Canvas.PutPixel,    *)
(* the recursive TraceRay, ClosestIntersection and Lighting.               *)
(*                                                                         *)
(* float64 values are modelled as fixed-point integers with Scale units    *)
(* per 1.0 (so 0.001 is one unit); +Inf is the integer Inf, larger than    *)
(* every finite value of the model.  A Vector is a record [x, y, z], a     *)
(* Color a record [r, g, b], a *Sphere an index into the sphere list with  *)
(* 0 for nil.                                                              *)
(***************************************************************************)
EXTENDS Integers, Sequences, FiniteSets, TLC

VARIABLES
    spheres, lights,      \* the scene (main, lines 140-149)
    x, y,                 \* the loop counters of main (lines 154-155)
    pc,                   \* position of the single goroutine
    wg,                   \* canvas.wg: the WaitGroup counter
    lock,                 \* canvas.lock: TRUE while held
    ctx,                  \* canvas.ctx: [color, im], current colour and pixel grid
    color,                \* the closure's local `color` (line 159)
    cell,                 \* PutPixel's locals i, j (line 45)
    stack,                \* the TraceRay activation records, innermost last
    retval,               \* the value returned by the last TraceRay call that returned
    invocations,          \* TraceRay invocations made for the current top-level call
    calls,                \* number of PutPixel calls made per pixel coordinate
    traced,               \* the TraceRay result of every pixel task that has computed it
    task,                 \* what has happened to the task of every pixel coordinate
    saved,                \* the image handed to SavePNG
    args, result          \* inputs and output of a function applied in isolation

vars == <<spheres, lights, x, y, pc, wg, lock, ctx, color, cell, stack, retval,
          invocations, calls, traced, task, saved, args, result>>

-----------------------------------------------------------------------------
(* Bounds of the model and constants of the program *)

Scale == 1000
Inf == 2000000000
Eps == Scale \div 1000

Cw == 4
Ch == 4
Vw == 1
Vh == 1
d == 1
max_recursion_depth == 3

MaxDepth == 3

-----------------------------------------------------------------------------
(* float64 arithmetic, fixed-point *)

\* F(v), with v evaluated once: the value of a Go local variable
With(v, F(_)) == CHOOSE res \in {F(w) : w \in {v}} : TRUE

Max(a, b) == IF a >= b THEN a ELSE b
Min(a, b) == IF a <= b THEN a ELSE b

\* a * b
FMul(a, b) ==
    LET hi == a \div Scale
        lo == a % Scale
    IN  hi * b + (lo * b) \div Scale

\* a / b, b > 0
FDiv(a, b) == (a \div b) * Scale + ((a % b) * Scale) \div b

\* r * r <= v * Scale for v < Inf, without leaving 32 bits
SqLeq(r, v) ==
    LET rh == r \div Scale
        rl == r % Scale
        q  == rh * rh * Scale + 2 * rh * rl + (rl * rl) \div Scale
        m  == (rl * rl) % Scale
    IN  /\ rh * rh < Inf \div Scale
        /\ q < v \/ (q = v /\ m = 0)

\* The largest r = base + k * step, k in 0 .. 7, with r * r <= v * Scale,
\* then refined with step \div 8, down to step 1
RECURSIVE SqrtSearch(_, _, _)
SqrtSearch(v, base, step) ==
    With(base + step * Cardinality({k \in 1 .. 7 : SqLeq(base + k * step, v)}),
         LAMBDA r : IF step = 1 THEN r ELSE SqrtSearch(v, r, step \div 8))

\* math.Sqrt, 0 <= v < 2^31: the whole part of the root of v * Scale, below 8^7
Sqrt(v) == With(v, LAMBDA w : SqrtSearch(w, 0, 8 * 8 * 8 * 8 * 8 * 8))

\* math.Pow(b, n) for a whole exponent n >= 0
RECURSIVE Pow(_, _)
Pow(b, n) ==
    IF n = 0 THEN Scale
    ELSE With(Pow(b, n \div 2), LAMBDA h :
            IF n % 2 = 0 THEN FMul(h, h) ELSE FMul(FMul(h, h), b))

-----------------------------------------------------------------------------
(* Vector and Color algebra *)

MakeVector(vx, vy, vz) == [x |-> vx, y |-> vy, z |-> vz]

MakeColor(r, g, b) ==
    [r |-> Max(Min(r, Scale), 0), g |-> Max(Min(g, Scale), 0), b |-> Max(Min(b, Scale), 0)]

WeightColor(c, w) == MakeColor(FMul(c.r, w), FMul(c.g, w), FMul(c.b, w))

AddColors(c1, c2) == MakeColor(c1.r + c2.r, c1.g + c2.g, c1.b + c2.b)

MakeSphere(center, radius, col, specular, reflective) ==
    [center |-> center, radius |-> radius, color |-> col,
     specular |-> specular, reflective |-> reflective]

MakeLight(kind, intensity, position, direction) ==
    [kind |-> kind, intensity |-> intensity, position |-> position, direction |-> direction]

ChangeCoord2D(cx, cy) == <<Cw \div 2 + cx, Ch \div 2 - cy>>

dot(a, b) == FMul(a.x, b.x) + FMul(a.y, b.y) + FMul(a.z, b.z)
sub(a, b) == MakeVector(a.x - b.x, a.y - b.y, a.z - b.z)
add(a, b) == MakeVector(a.x + b.x, a.y + b.y, a.z + b.z)
mul(a, b) == MakeVector(FMul(a.x, b.x), FMul(a.y, b.y), FMul(a.z, b.z))
neg(a) == MakeVector(-a.x, -a.y, -a.z)
norm(a) == Sqrt(dot(a, a))

normalize(a) ==
    With(norm(a), LAMBDA length :
        MakeVector(FDiv(a.x, length), FDiv(a.y, length), FDiv(a.z, length)))

CanvasToViewPort(px, py) ==
    MakeVector((px * Scale * Vw) \div Cw, (py * Scale * Vh) \div Ch, d * Scale)

-----------------------------------------------------------------------------
(* Geometry *)

\* <<t1, t2>>.  With a zero direction the code divides 0 by 0 and both roots
\* are NaN, which fails every comparison of ClosestIntersection, as Inf does.
IntersectRaySphere(origin, direction, sphere) ==
    LET r  == sphere.radius
        CO == sub(origin, sphere.center)
        a  == dot(direction, direction)
        b  == 2 * dot(CO, direction)
        c  == dot(CO, CO) - FMul(r, r)
        discrim == FMul(b, b) - 4 * FMul(a, c)
    IN  IF discrim < 0 \/ a = 0 THEN <<Inf, Inf>>
        ELSE With(Sqrt(discrim), LAMBDA root :
                <<FDiv(-b + root, 2 * a), FDiv(-b - root, 2 * a)>>)

\* The range test with the comparison against best_t made non-strict
InRangeTie(t, best_t, t_min, t_max) == t <= best_t /\ t_min <= t /\ t <= t_max

\* The `if` of line 201 and of line 205: a root replaces the running best
InRange(t, best_t, t_min, t_max) == t < best_t /\ t_min <= t /\ t <= t_max

\* One iteration of the loop of ClosestIntersection, on sphere number k;
\* best is [sphere, t]: the index of best_sphere (0 for nil) and best_t
CIStep(sphs, origin, direction, t_min, t_max, k, best) ==
    With(IntersectRaySphere(origin, direction, sphs[k]), LAMBDA ts :
        LET b1 == IF InRange(ts[1], best.t, t_min, t_max)
                  THEN [sphere |-> k, t |-> ts[1]] ELSE best
        IN  IF InRange(ts[2], b1.t, t_min, t_max)
            THEN [sphere |-> k, t |-> ts[2]] ELSE b1)

RECURSIVE CILoop(_, _, _, _, _, _, _)
CILoop(sphs, origin, direction, t_min, t_max, k, best) ==
    IF k > Len(sphs) THEN best
    ELSE With(CIStep(sphs, origin, direction, t_min, t_max, k, best), LAMBDA nb :
            CILoop(sphs, origin, direction, t_min, t_max, k + 1, nb))

ClosestIntersection(sphs, origin, direction, t_min, t_max) ==
    CILoop(sphs, origin, direction, t_min, t_max, 1, [sphere |-> 0, t |-> t_max])

ReflectRay(ray, normal) ==
    LET k == 2 * dot(normal, ray)
    IN  sub(mul(MakeVector(k, k, k), normal), ray)

-----------------------------------------------------------------------------
(* Shading *)

\* L of lines 247 and 250
LightVector(light, point) ==
    IF light.kind = "point" THEN sub(light.position, point) ELSE light.direction

\* t_max of lines 248 and 251
ShadowTMax(light) == IF light.kind = "point" THEN 1 * Scale ELSE Inf

\* Line 263, N and L normalized at lines 261-262
Diffuse(light, L, N) == FMul(light.intensity, Max(0, dot(N, L)))

\* Lines 266-270; specular is a whole exponent, or -1
Specular(light, L, N, reflection, specular) ==
    IF specular # -1
    THEN With(normalize(ReflectRay(L, N)), LAMBDA R :
         With(Max(0, dot(R, normalize(reflection))), LAMBDA base :
            FMul(light.intensity, Pow(base, specular))))
    ELSE 0

\* The loop body with the shadow check of lines 255-258 left out
LightingStepUnshadowed(sphs, lts, point, normal, reflection, specular, k, intensity) ==
    LET light == lts[k]
        L     == LightVector(light, point)
    IN  IF light.kind = "ambient"
        THEN [k |-> k + 1, intensity |-> intensity + light.intensity]
        ELSE With(normalize(normal), LAMBDA N :
             With(normalize(L), LAMBDA Ln :
                [k |-> k + 1,
                 intensity |-> intensity + Diffuse(light, Ln, N)
                               + Specular(light, Ln, N, reflection, specular)]))

\* One iteration of the loop of Lighting, on light number k: the intensity
\* after it and the number of the light the loop goes on with
LightingStep(sphs, lts, point, normal, reflection, specular, k, intensity) ==
    LET light == lts[k]
        L     == LightVector(light, point)
        shadow_sphere ==
            ClosestIntersection(sphs, point, L, Eps, ShadowTMax(light)).sphere
    IN  IF light.kind = "ambient"
        THEN [k |-> k + 1, intensity |-> intensity + light.intensity]
        ELSE IF shadow_sphere # 0
        THEN [k |-> k + 1, intensity |-> intensity]
        ELSE With(normalize(normal), LAMBDA N :
             With(normalize(L), LAMBDA Ln :
                [k |-> k + 1,
                 intensity |-> intensity + Diffuse(light, Ln, N)
                               + Specular(light, Ln, N, reflection, specular)]))

RECURSIVE LightingLoop(_, _, _, _, _, _, _)
LightingLoop(sphs, lts, point, normal, reflection, specular, st) ==
    IF st.k > Len(lts) THEN st.intensity
    ELSE With(LightingStep(sphs, lts, point, normal, reflection, specular,
                           st.k, st.intensity), LAMBDA next :
            LightingLoop(sphs, lts, point, normal, reflection, specular, next))

Lighting(sphs, lts, point, normal, reflection, specular) ==
    LightingLoop(sphs, lts, point, normal, reflection, specular, [k |-> 1, intensity |-> 0])

-----------------------------------------------------------------------------
(* TraceRay, one activation record per call *)

Black == MakeColor(0, 0, 0)

Frame(origin, direction, t_min, t_max, recursion_depth) ==
    [origin |-> origin, direction |-> direction, t_min |-> t_min, t_max |-> t_max,
     recursion_depth |-> recursion_depth,
     waiting |-> FALSE, local_color |-> Black, r |-> 0,
     intersection_pt |-> origin, R |-> direction]

\* Line 170
Hit(f) == ClosestIntersection(spheres, f.origin, f.direction, f.t_min, f.t_max)

\* Lines 177-184 and 188, for a frame whose ray hits a sphere
Shade(f) ==
    With(Hit(f), LAMBDA h :
        LET best_sphere == spheres[h.sphere]
            t == MakeVector(h.t, h.t, h.t)
        IN
    With(add(f.origin, mul(t, f.direction)), LAMBDA intersection_pt :
    With(normalize(sub(intersection_pt, best_sphere.center)), LAMBDA normal :
    With(Lighting(spheres, lights, intersection_pt, normal, neg(f.direction),
                  best_sphere.specular), LAMBDA intensity :
        [intersection_pt |-> intersection_pt,
         local_color |-> WeightColor(best_sphere.color, intensity),
         r |-> best_sphere.reflective,
         R |-> ReflectRay(neg(f.direction), normal)]))))

\* The base condition with the test of the reflectivity left out
IsBaseDepthOnly(recursion_depth, r) == recursion_depth <= 0

\* The condition of line 185
IsBase(recursion_depth, r) == recursion_depth <= 0 \/ r <= 0

\* The recursive call made with the depth it was given
SameDepth(recursion_depth) == recursion_depth

\* The recursion_depth passed at line 189
NextDepth(recursion_depth) == recursion_depth - 1

Top == stack[Len(stack)]
Pop == SubSeq(stack, 1, Len(stack) - 1)

\* `return c` of the innermost call: to the calling TraceRay, or to the
\* closure of main, which goes on to call PutPixel (lines 159-160)
Return(c) ==
    /\ stack' = Pop
    /\ retval' = c
    /\ IF Len(stack) = 1
       THEN /\ color' = c
            /\ pc' = "putpixel"
            /\ traced' = IF <<x, y>> \in DOMAIN traced
                         THEN [traced EXCEPT ![<<x, y>>] = c] ELSE traced
       ELSE UNCHANGED <<color, pc, traced>>

TraceUnchanged ==
    UNCHANGED <<spheres, lights, x, y, wg, lock, ctx, cell, calls, task, saved, args, result>>

\* Lines 172-174
TraceRayMiss ==
    /\ pc = "trace" /\ ~Top.waiting
    /\ Hit(Top).sphere = 0
    /\ Return(Black)
    /\ UNCHANGED invocations
    /\ TraceUnchanged

\* Lines 185-187
TraceRayLocal ==
    /\ pc = "trace" /\ ~Top.waiting
    /\ Hit(Top).sphere # 0
    /\ \E s \in {Shade(Top)} :
           /\ IsBase(Top.recursion_depth, s.r)
           /\ Return(s.local_color)
    /\ UNCHANGED invocations
    /\ TraceUnchanged

\* Lines 188-189: the recursive call
TraceRayReflect ==
    /\ pc = "trace" /\ ~Top.waiting
    /\ Hit(Top).sphere # 0
    /\ \E s \in {Shade(Top)} :
           /\ ~IsBase(Top.recursion_depth, s.r)
           /\ stack' = Append(
                [stack EXCEPT ![Len(stack)] =
                    [Top EXCEPT !.waiting = TRUE, !.local_color = s.local_color,
                                !.r = s.r, !.intersection_pt = s.intersection_pt,
                                !.R = s.R]],
                Frame(s.intersection_pt, s.R, Eps, Inf, NextDepth(Top.recursion_depth)))
    /\ invocations' = invocations + 1
    /\ UNCHANGED <<retval, color, pc, traced>>
    /\ TraceUnchanged

\* Line 191, after the recursive call has returned reflected_color
TraceRayCombine ==
    /\ pc = "trace" /\ Top.waiting
    /\ Return(AddColors(WeightColor(Top.local_color, 1 * Scale - Top.r),
                        WeightColor(retval, Top.r)))
    /\ UNCHANGED invocations
    /\ TraceUnchanged

-----------------------------------------------------------------------------
(* The canvas and the drawing context *)

Pixels ==
    {<<px, py>> : px \in -(Cw \div 2) .. (Cw \div 2 - 1),
                  py \in -(Ch \div 2) .. (Ch \div 2 - 1)}

Grid == (0 .. Cw - 1) \X (0 .. Ch - 1)

\* The colour of a new context and of every pixel of a new image
Transparent == [r |-> 0, g |-> 0, b |-> 0, a |-> 0]

\* The opaque colour SetRGB makes of r, g, b
RGB(c) == [r |-> c.r, g |-> c.g, b |-> c.b, a |-> Scale]

NewContext == [color |-> Transparent, im |-> [c \in Grid |-> Transparent]]

\* Paints pixel (i, j) with the current colour; off the image, nothing
SetPixel(c, i, j) ==
    IF <<i, j>> \in Grid THEN [c EXCEPT !.im[<<i, j>>] = c.color] ELSE c

\* Replaces the current colour
SetRGB(c, col) == [c EXCEPT !.color = RGB(col)]

\* Fills the current path, which PutPixel leaves empty
Fill(c) == c

NoColor == [r |-> -1, g |-> -1, b |-> -1]

-----------------------------------------------------------------------------
(* main *)

V(vx, vy, vz) == MakeVector(vx * Scale, vy * Scale, vz * Scale)

O == V(0, 0, -3)

\* The sample scene of lines 140-149, its floor sphere made smaller,
\* and two more scenes
Red == MakeColor(Scale, 0, 0)
Blue == MakeColor(0, 0, Scale)
Green == MakeColor(0, Scale, 0)
Yellow == MakeColor(Scale, Scale, 0)

SampleLights ==
    << MakeLight("ambient", 200, V(0, 0, 0), V(0, 0, 0)),
       MakeLight("point", 600, V(2, 1, 0), V(0, 0, 0)),
       MakeLight("directional", 200, V(0, 0, 0), V(1, 4, 4)) >>

Scenes ==
    << [spheres |-> << MakeSphere(V(0, -1, 3), 1 * Scale, Red, 500, 200),
                       MakeSphere(V(2, 0, 4), 1 * Scale, Blue, 500, 300),
                       MakeSphere(V(-2, 0, 4), 1 * Scale, Green, 10, 400),
                       MakeSphere(V(0, -6, 0), 5 * Scale, Yellow, 1000, 500) >>,
        lights |-> SampleLights],
       [spheres |-> << MakeSphere(V(0, 0, 0), 8 * Scale, Blue, 10, 1 * Scale),
                       MakeSphere(V(0, -1, 3), 1 * Scale, Red, -1, 0) >>,
        lights |-> << MakeLight("point", 600, V(2, 1, 0), V(0, 0, 0)),
                      MakeLight("ambient", 200, V(0, 0, 0), V(0, 0, 0)),
                      MakeLight("directional", 200, V(0, 0, 0), V(1, 4, 4)) >>],
       [spheres |-> << MakeSphere(V(1, 0, 3), 1 * Scale, Green, -1, 0),
                       MakeSphere(V(-1, 0, 3), 1 * Scale, Yellow, 10, 500) >>,
        lights |-> SampleLights] >>

\* The loop counters after one more iteration of the inner loop (lines 154-155)
LoopAdvance ==
    IF y + 1 < Ch \div 2
    THEN /\ y' = y + 1
         /\ x' = x
    ELSE /\ y' = -(Ch \div 2)
         /\ x' = x + 1

\* A WaitGroup whose Done is lost
WgAddOnly(n, delta) == IF delta < 0 THEN n ELSE n + delta

\* The WaitGroup counter after Add(delta) (line 157)
WgAdd(n, delta) == n + delta

Init ==
    /\ \E s \in 1 .. Len(Scenes) :
          /\ spheres = Scenes[s].spheres
          /\ lights = Scenes[s].lights
    /\ x = -(Cw \div 2)
    /\ y = -(Ch \div 2)
    /\ pc = "loop"
    /\ wg = 0
    /\ lock = FALSE
    /\ ctx = NewContext
    /\ color = Black
    /\ cell = <<0, 0>>
    /\ stack = <<>>
    /\ retval = Black
    /\ invocations = 0
    /\ calls = [p \in Pixels |-> 0]
    /\ traced = [p \in Pixels |-> NoColor]
    /\ task = [p \in Pixels |-> "new"]
    /\ saved = <<>>
    /\ args = <<>>
    /\ result = <<>>

\* Lines 156-161: one iteration of the loops calls the function literal, which
\* calls TraceRay; there is no go statement, the call is an ordinary call
Dispatch ==
    /\ pc = "loop"
    /\ x < Cw \div 2
    /\ LET D == CanvasToViewPort(x, y)
       IN  stack' = <<Frame(O, D, 1 * Scale, Inf, max_recursion_depth)>>
    /\ wg' = WgAdd(wg, 1)
    /\ invocations' = 1
    /\ task' = [task EXCEPT ![<<x, y>>] = "running"]
    /\ pc' = "trace"
    /\ UNCHANGED <<spheres, lights, x, y, lock, ctx, color, cell, retval, calls,
                   traced, saved, args, result>>

\* A Lock that does not take the mutex
NotLocked == FALSE

\* The lock the mutations of PutPixel are made under (line 46)
Locked == TRUE

\* Lines 44-46: defer, ChangeCoord2D, Lock
PutPixelLock ==
    /\ pc = "putpixel"
    /\ lock = FALSE
    /\ lock' = Locked
    /\ cell' = ChangeCoord2D(x, y)
    /\ calls' = [calls EXCEPT ![<<x, y>>] = @ + 1]
    /\ pc' = "setpixel"
    /\ UNCHANGED <<spheres, lights, x, y, wg, ctx, color, stack, retval, invocations,
                   traced, task, saved, args, result>>

\* Line 47
PutPixelSetPixel ==
    /\ pc = "setpixel"
    /\ ctx' = SetPixel(ctx, cell[1], cell[2])
    /\ pc' = "setrgb"
    /\ UNCHANGED <<spheres, lights, x, y, wg, lock, color, cell, stack, retval,
                   invocations, calls, traced, task, saved, args, result>>

\* Line 48
PutPixelSetRGB ==
    /\ pc = "setrgb"
    /\ ctx' = SetRGB(ctx, color)
    /\ pc' = "fill"
    /\ UNCHANGED <<spheres, lights, x, y, wg, lock, color, cell, stack, retval,
                   invocations, calls, traced, task, saved, args, result>>

\* Line 49
PutPixelFill ==
    /\ pc = "fill"
    /\ ctx' = Fill(ctx)
    /\ task' = [task EXCEPT ![<<x, y>>] = "written"]
    /\ pc' = "unlock"
    /\ UNCHANGED <<spheres, lights, x, y, wg, lock, color, cell, stack, retval,
                   invocations, calls, traced, saved, args, result>>

\* Line 50
PutPixelUnlock ==
    /\ pc = "unlock"
    /\ lock' = FALSE
    /\ pc' = "return"
    /\ UNCHANGED <<spheres, lights, x, y, wg, ctx, color, cell, stack, retval,
                   invocations, calls, traced, task, saved, args, result>>

\* The deferred wg.Done() of line 44, the return of PutPixel and of the
\* function literal, and the y++ or x++ of the loops
PutPixelDone ==
    /\ pc = "return"
    /\ wg' = WgAdd(wg, -1)
    /\ task' = [task EXCEPT ![<<x, y>>] = "finished"]
    /\ LoopAdvance
    /\ pc' = "loop"
    /\ UNCHANGED <<spheres, lights, lock, ctx, color, cell, stack, retval,
                   invocations, calls, traced, saved, args, result>>

\* Line 165: Wait returns when the counter is zero
Wait ==
    /\ pc = "loop"
    /\ x >= Cw \div 2
    /\ wg = 0
    /\ pc' = "save"
    /\ UNCHANGED <<spheres, lights, x, y, wg, lock, ctx, color, cell, stack, retval,
                   invocations, calls, traced, task, saved, args, result>>

\* Line 166
SavePNG ==
    /\ pc = "save"
    /\ saved' = ctx.im
    /\ pc' = "done"
    /\ UNCHANGED <<spheres, lights, x, y, wg, lock, ctx, color, cell, stack, retval,
                   invocations, calls, traced, task, args, result>>

Next ==
    \/ Dispatch
    \/ TraceRayMiss
    \/ TraceRayLocal
    \/ TraceRayReflect
    \/ TraceRayCombine
    \/ PutPixelLock
    \/ PutPixelSetPixel
    \/ PutPixelSetRGB
    \/ PutPixelFill
    \/ PutPixelUnlock
    \/ PutPixelDone
    \/ Wait
    \/ SavePNG

Spec == Init /\ [][Next]_vars

-----------------------------------------------------------------------------
(* The frame driver and PutPixel: claims C1, C2, C3, C4, C9, C10 *)

\* The pixel tasks that have been dispatched and have not finished
Unfinished == {p \in Pixels : task[p] \in {"running", "written"}}

InPutPixel == pc \in {"setpixel", "setrgb", "fill", "unlock", "return"}

\* C1: the canvas is handed to SavePNG only after the PutPixel of every pixel
\* coordinate has made its canvas write and returned; the WaitGroup counter is
\* the number of dispatched and unfinished tasks, is never negative, and Wait
\* does not return while a dispatched task is unfinished.
C1_FullBarrier ==
    /\ wg = Cardinality(Unfinished)
    /\ wg >= 0
    /\ pc \in {"save", "done"} =>
          /\ Unfinished = {}
          /\ \A p \in Pixels : task[p] = "finished" /\ calls[p] = 1

C1_Witness ==
    /\ pc = "done"
    /\ saved = ctx.im
    /\ \A p \in Pixels : task[p] = "finished"
    /\ wg = 0

\* C2: each pixel's task is an independent concurrent unit of work: while the
\* task of one pixel is unfinished and pixels remain, the driver can dispatch
\* the task of the next pixel.
C2_ConcurrentDispatch ==
    (Unfinished # {} /\ \E p \in Pixels : task[p] = "new") => ENABLED Dispatch

\* C3: PutPixel is called exactly once with every pixel coordinate, never
\* twice, and makes its canvas mutations (SetPixel, SetRGB, Fill) while
\* holding canvas.lock.
C3_OncePerPixel ==
    /\ \A p \in Pixels : calls[p] <= 1
    /\ \A p \in Pixels : task[p] \in {"written", "finished"} => calls[p] = 1
    /\ pc \in {"save", "done"} => \A p \in Pixels : calls[p] = 1
    /\ pc \in {"setpixel", "setrgb", "fill"} => lock = TRUE
    /\ pc \in {"loop", "trace", "putpixel", "save", "done"} => lock = FALSE

C3_Witness ==
    /\ pc = "fill"
    /\ lock = TRUE
    /\ calls[<<x, y>>] = 1
    /\ \E p \in Pixels : task[p] = "finished"

C9_CoversCanvas ==
    /\ InPutPixel => cell \in Grid
    /\ \A p, q \in Pixels :
          ChangeCoord2D(p[1], p[2]) = ChangeCoord2D(q[1], q[2]) => p = q
    /\ pc = "done" =>
          \A c \in Grid :
             Cardinality({p \in Pixels : ChangeCoord2D(p[1], p[2]) = c /\ calls[p] = 1}) = 1

\* C10: when PutPixel(x, y, color) returns, the cell ChangeCoord2D(x, y) holds
\* the colour passed to that call.
C10_OwnColour ==
    (pc = "return" /\ cell \in Grid) => ctx.im[cell] = RGB(color)

-----------------------------------------------------------------------------
(* TraceRay applied to one ray: claims C5 and C8 *)

\* The values the variables of main have while a function is applied alone
Idle ==
    /\ x = 0
    /\ y = 0
    /\ wg = 0
    /\ lock = FALSE
    /\ ctx = NewContext
    /\ color = Black
    /\ cell = <<0, 0>>
    /\ retval = Black
    /\ calls = <<>>
    /\ traced = <<>>
    /\ task = <<>>
    /\ saved = <<>>

\* A call TraceRay(spheres, lights, O, D, 1, +Inf, n), 0 <= n <= MaxDepth
InitTrace ==
    /\ \E s \in 1 .. Len(Scenes) :
          /\ spheres = Scenes[s].spheres
          /\ lights = Scenes[s].lights
    /\ \E p \in Pixels, n \in 0 .. MaxDepth :
          /\ args = Frame(O, CanvasToViewPort(p[1], p[2]), 1 * Scale, Inf, n)
          /\ stack = <<args>>
    /\ invocations = 1
    /\ pc = "trace"
    /\ result = <<>>
    /\ Idle

NextTrace ==
    \/ TraceRayMiss
    \/ TraceRayLocal
    \/ TraceRayReflect
    \/ TraceRayCombine

SpecTrace == InitTrace /\ [][NextTrace]_vars

\* The goroutine that calls TraceRay runs until the call returns
FairSpecTrace == SpecTrace /\ WF_vars(NextTrace)

\* C5: when the ray of a call hits a sphere and recursion_depth <= 0 or the
\* sphere's reflective value is <= 0, the call makes no recursive call and
\* returns WeightColor(sphere.color, Lighting(...)) unmodified; a recursive
\* call is made only when recursion_depth > 0 and reflective > 0.
C5_BaseCase ==
    [][ (pc = "trace" /\ ~Top.waiting /\ Hit(Top).sphere # 0) =>
          \A h \in {Hit(Top)} :
             LET sphere == spheres[h.sphere]
                 point  == add(Top.origin, mul(MakeVector(h.t, h.t, h.t), Top.direction))
                 normal == normalize(sub(point, sphere.center))
                 local  == WeightColor(sphere.color,
                              Lighting(spheres, lights, point, normal,
                                       neg(Top.direction), sphere.specular))
             IN  IF Top.recursion_depth <= 0 \/ sphere.reflective <= 0
                 THEN /\ stack' = Pop
                      /\ invocations' = invocations
                      /\ retval' = local
                 ELSE /\ Len(stack') = Len(stack) + 1
                      /\ Top.recursion_depth > 0 /\ sphere.reflective > 0
      ]_vars

\* A call with recursion_depth = 0 whose ray hit a sphere of reflective = 1
\* has returned the local colour without recursing
C5_Witness ==
    /\ pc = "putpixel"
    /\ stack = <<>>
    /\ args.recursion_depth = 0
    /\ invocations = 1
    /\ Hit(args).sphere # 0
    /\ spheres[Hit(args).sphere].reflective = 1 * Scale
    /\ color = Shade(args).local_color

\* C8: every call TraceRay(..., n), n >= 0, terminates; a recursive call passes
\* a recursion_depth one less than its caller's, no call has a negative
\* recursion_depth, and a top-level call makes at most n + 1 invocations.
C8_BoundedRecursion ==
    /\ [][ /\ Len(stack') > Len(stack) =>
                /\ Len(stack') = Len(stack) + 1
                /\ stack'[Len(stack')].recursion_depth = Top.recursion_depth - 1
                /\ invocations' = invocations + 1
           /\ \A i \in DOMAIN stack' : stack'[i].recursion_depth >= 0
           /\ invocations' <= args.recursion_depth + 1
       ]_vars
    /\ <>(pc = "putpixel" /\ stack = <<>>)

\* A call with n = MaxDepth has returned after n + 1 invocations
C8_Witness ==
    /\ pc = "putpixel"
    /\ stack = <<>>
    /\ args.recursion_depth = MaxDepth
    /\ invocations = MaxDepth + 1

-----------------------------------------------------------------------------
(* ClosestIntersection applied to one ray: claim C7 *)

MaxSpheres == 2

\* Spheres on the z axis, whose roots along it are whole thousandths
AxisSpheres ==
    { MakeSphere(V(0, 0, 3), 1 * Scale, Red, -1, 0),
      MakeSphere(V(0, 0, 5), 3 * Scale, Blue, -1, 0),
      MakeSphere(V(0, 0, 2), 1 * Scale, Green, -1, 0) }

SphereLists == UNION {[1 .. n -> AxisSpheres] : n \in 0 .. MaxSpheres}

InitCI ==
    /\ \E sphs \in SphereLists,
          origin \in {V(0, 0, 0), V(0, 0, 1), V(0, 3, 0)},
          direction \in {V(0, 0, 1), V(0, 0, 2)},
          t_min \in {Eps, 1 * Scale, 2 * Scale},
          t_max \in {1 * Scale, 2 * Scale, 4 * Scale, Inf} :
            /\ spheres = sphs
            /\ args = [origin |-> origin, direction |-> direction,
                       t_min |-> t_min, t_max |-> t_max]
    /\ lights = <<>>
    /\ stack = <<>>
    /\ invocations = 0
    /\ pc = "closest"
    /\ result = [sphere |-> 0, t |-> 0]
    /\ Idle

CallClosestIntersection ==
    /\ pc = "closest"
    /\ result' = ClosestIntersection(spheres, args.origin, args.direction,
                                     args.t_min, args.t_max)
    /\ pc' = "closest_done"
    /\ UNCHANGED <<spheres, lights, x, y, wg, lock, ctx, color, cell, stack, retval,
                   invocations, calls, traced, task, saved, args>>

SpecCI == InitCI /\ [][CallClosestIntersection]_vars

\* The roots of sphere number k on the ray of the call
RootsOf(k) ==
    LET ts == IntersectRaySphere(args.origin, args.direction, spheres[k])
    IN  {ts[1], ts[2]} \ {Inf}

\* The result the claim describes, for the roots r of the range Ok(r)
NearestOf(Ok(_)) ==
    LET valid == UNION {{r \in RootsOf(k) : Ok(r)} : k \in DOMAIN spheres}
        least == CHOOSE r \in valid : \A q \in valid : r <= q
        first == CHOOSE k \in DOMAIN spheres :
                    /\ least \in RootsOf(k)
                    /\ \A j \in DOMAIN spheres : least \in RootsOf(j) => k <= j
    IN  IF valid = {} THEN [sphere |-> 0, t |-> args.t_max]
        ELSE [sphere |-> first, t |-> least]

\* C7 as stated: the nearest root of the closed range [t_min, t_max], the
\* first sphere in scene order on a tie, no sphere exactly when there is none.
C7_ClosedRange ==
    pc = "closest_done" =>
        LET want == NearestOf(LAMBDA r : args.t_min <= r /\ r <= args.t_max)
        IN  /\ result.sphere = want.sphere
            /\ want.sphere # 0 => result.t = want.t

\* C7 amended: the same of the range t_min <= r < t_max; with no such root
\* the result is no sphere and the distance t_max.
C7_HalfOpenRange ==
    pc = "closest_done" =>
        result = NearestOf(LAMBDA r : args.t_min <= r /\ r < args.t_max)

\* Two spheres tie on the nearest root, the first was returned, and a root
\* that is exactly t_max was left out
C7_Witness ==
    /\ pc = "closest_done"
    /\ Len(spheres) = 2
    /\ result.sphere = 1
    /\ result.t \in RootsOf(1) \cap RootsOf(2)
    /\ args.t_max \in RootsOf(1) \cup RootsOf(2)

-----------------------------------------------------------------------------
(* Lighting applied to one point, one iteration of its loop at a time: claim C6 *)

\* A sphere with the shaded points on it, and one that lies between the
\* point (0, 0, 0) and the light at (0, 4, 0)
Shaded == MakeSphere(V(0, -1, 0), 1 * Scale, Red, 10, 0)
Occluder == MakeSphere(MakeVector(0, 2 * Scale, 0), Scale \div 2, Blue, 10, 0)

Ambient == MakeLight("ambient", 200, V(0, 0, 0), V(0, 0, 0))
PointAbove == MakeLight("point", 600, V(0, 4, 0), V(0, 0, 0))
PointAside == MakeLight("point", 500, MakeVector(4 * Scale, Scale \div 2, 0), V(0, 0, 0))
SunAbove == MakeLight("directional", 300, V(0, 0, 0), V(0, 1, 0))
SunAside == MakeLight("directional", 400, V(0, 0, 0), V(1, 1, 0))

LightLists ==
    { <<Ambient, PointAbove, SunAside>>,
      <<PointAbove, Ambient, PointAside>>,
      <<PointAbove, SunAbove, SunAside>>,
      <<SunAbove, PointAside, Ambient>>,
      <<PointAside, PointAbove>>,
      <<SunAside, SunAbove, Ambient, PointAbove>> }

InitLighting ==
    /\ spheres \in {<<Shaded>>, <<Shaded, Occluder>>, <<Occluder, Shaded>>}
    /\ lights \in LightLists
    /\ \E pn \in {<<V(0, 0, 0), V(0, 1, 0)>>, <<V(1, -1, 0), V(1, 0, 0)>>},
          reflection \in {V(0, 1, 0), V(1, 1, -1)},
          specular \in {-1, 10} :
            args = [point |-> pn[1], normal |-> pn[2],
                    reflection |-> reflection, specular |-> specular]
    /\ stack = <<>>
    /\ invocations = 0
    /\ pc = "lighting"
    /\ result = [k |-> 1, intensity |-> 0]
    /\ Idle

LightingUnchanged ==
    UNCHANGED <<spheres, lights, x, y, wg, lock, ctx, color, cell, stack, retval,
                invocations, calls, traced, task, saved, args>>

\* One iteration of the loop of lines 240-272
LightingIterate ==
    /\ pc = "lighting"
    /\ result.k <= Len(lights)
    /\ result' = LightingStep(spheres, lights, args.point, args.normal,
                              args.reflection, args.specular, result.k, result.intensity)
    /\ UNCHANGED pc
    /\ LightingUnchanged

\* Line 274
LightingReturn ==
    /\ pc = "lighting"
    /\ result.k > Len(lights)
    /\ pc' = "lighting_done"
    /\ UNCHANGED result
    /\ LightingUnchanged

NextLighting == LightingIterate \/ LightingReturn

SpecLighting == InitLighting /\ [][NextLighting]_vars

\* The shadow test of the claim for light number k
Occluded(k) ==
    LET light == lights[k]
        L == IF light.kind = "point" THEN sub(light.position, args.point)
             ELSE light.direction
        t_max == IF light.kind = "point" THEN 1 * Scale ELSE Inf
    IN  ClosestIntersection(spheres, args.point, L, Eps, t_max).sphere # 0

\* A sphere cuts the segment from the shaded point to point light number k
\* strictly between its ends
Between(k) ==
    /\ lights[k].kind = "point"
    /\ \E s \in DOMAIN spheres :
          LET ts == IntersectRaySphere(args.point,
                                       sub(lights[k].position, args.point), spheres[s])
          IN  \E i \in 1 .. 2 : Eps < ts[i] /\ ts[i] < 1 * Scale

\* What an unoccluded point or directional light number k adds
Lit(k) ==
    LET light == lights[k]
        L == normalize(IF light.kind = "point" THEN sub(light.position, args.point)
                       ELSE light.direction)
        N == normalize(args.normal)
    IN  Diffuse(light, L, N) + Specular(light, L, N, args.reflection, args.specular)

\* C6: an occluded point or directional light adds nothing to the intensity,
\* an ambient light adds its full intensity, the loop goes on with the next
\* light after an occluded one and ends only after the last light; a sphere
\* strictly between the point and a point light zeroes that light.
C6_ShadowGating ==
    [][ /\ (pc = "lighting" /\ result.k <= Len(lights)) =>
              LET k == result.k
                  added == result'.intensity - result.intensity
              IN  /\ result'.k = k + 1
                  /\ pc' = "lighting"
                  /\ lights[k].kind = "ambient" => added = lights[k].intensity
                  /\ (lights[k].kind # "ambient" /\ Occluded(k)) => added = 0
                  /\ (lights[k].kind # "ambient" /\ ~Occluded(k)) => added = Lit(k)
                  /\ Between(k) => added = 0
        /\ pc' = "lighting_done" => result'.k = Len(lights) + 1
      ]_vars

RECURSIVE SumTo(_, _)
SumTo(Term(_), n) == IF n = 0 THEN 0 ELSE Term(n) + SumTo(Term, n - 1)

\* Lighting has returned for a point that a sphere hides from a point light,
\* with a later light that is not occluded and has added its terms
C6_Witness ==
    /\ pc = "lighting_done"
    /\ \E k \in DOMAIN lights :
          /\ Between(k)
          /\ \E j \in DOMAIN lights :
                j > k /\ lights[j].kind # "ambient" /\ ~Occluded(j) /\ Lit(j) > 0
    /\ \E a \in DOMAIN lights : lights[a].kind = "ambient"
    /\ result.intensity =
          SumTo(LAMBDA k : IF lights[k].kind = "ambient" THEN lights[k].intensity
                           ELSE IF Occluded(k) THEN 0 ELSE Lit(k), Len(lights))

=============================================================================
